---- MODULE Spec2Model ----
(***************************************************************************)
(* Model of easybuild/framework/easyconfig/format/version.py:              *)
(* VersionOperator (version expressions and the ordered list of versions), *)
(* ToolchainOperator (toolchain expressions) and ConfigObjVersion          *)
(* (classification of the sections of a ConfigObj).                        *)
(*                                                                         *)
(* A text is a sequence of one-character strings.  Python's None is the    *)
(* string "None" where an operator symbol is expected and the text         *)
(* <<"None">> where a text is expected (no real text has a two-letter      *)
(* element).                                                               *)
(***************************************************************************)
EXTENDS Integers, Sequences, FiniteSets, TLC

VARIABLES raiseError, versions, result

vars == <<raiseError, versions, result>>

----------------------------------------------------------------------------
(* Characters *)

\* The characters of the model, in ascending ASCII order.
AsciiOrder ==
    <<"\n", " ", "!", ".",
      "0", "1", "2", "3", "4", "5", "6", "7", "8", "9",
      "<", "=", ">",
      "A", "B", "C", "D", "E", "F", "G", "H", "I", "J", "K", "L", "M",
      "N", "O", "P", "Q", "R", "S", "T", "U", "V", "W", "X", "Y", "Z",
      "_",
      "a", "b", "c", "d", "e", "f", "g", "h", "i", "j", "k", "l", "m",
      "n", "o", "p", "q", "r", "s", "t", "u", "v", "w", "x", "y", "z">>

Ord(c) == CHOOSE i \in 1..Len(AsciiOrder) : AsciiOrder[i] = c

Digits == <<"0", "1", "2", "3", "4", "5", "6", "7", "8", "9">>

IsDigit(c) == \E i \in 1..Len(Digits) : Digits[i] = c

DigitVal(c) == (CHOOSE i \in 1..Len(Digits) : Digits[i] = c) - 1

IsLower(c) == Ord(c) >= Ord("a") /\ Ord(c) <= Ord("z")

IsUpper(c) == Ord(c) >= Ord("A") /\ Ord(c) <= Ord("Z")

\* \s of the re module
IsSpace(c) == c \in {" ", "\n"}

\* [^_\W]: a word character other than the separator
IsAlnum(c) == IsDigit(c) \/ IsLower(c) \/ IsUpper(c)

NoneTxt == <<"None">>

----------------------------------------------------------------------------
(* distutils.version.LooseVersion, the base class of EasyVersion *)

IntComp(n) == [isnum |-> TRUE, n |-> n, s |-> <<>>]
StrComp(s) == [isnum |-> FALSE, n |-> 0, s |-> s]

\* component_re = (\d+ | [a-z]+ | \.)
CharClass(c) ==
    IF IsDigit(c) THEN "digit"
    ELSE IF IsLower(c) THEN "lower"
    ELSE IF c = "." THEN "dot"
    ELSE "other"

\* last index of the run of characters of one class that starts at i
RECURSIVE RunEnd(_, _)
RunEnd(t, i) ==
    IF i < Len(t) /\ CharClass(t[i + 1]) = CharClass(t[i])
    THEN RunEnd(t, i + 1)
    ELSE i

\* int(component)
RECURSIVE IntOf(_)
IntOf(s) ==
    IF s = <<>> THEN 0
    ELSE 10 * IntOf(SubSeq(s, 1, Len(s) - 1)) + DigitVal(s[Len(s)])

\* LooseVersion.parse: split on component_re, drop '' and '.', int() what converts
RECURSIVE Components(_, _)
Components(t, i) ==
    IF i > Len(t) THEN <<>>
    ELSE IF CharClass(t[i]) = "dot" THEN Components(t, i + 1)
    ELSE LET j == RunEnd(t, i)
             piece == SubSeq(t, i, j)
         IN  <<IF CharClass(t[i]) = "digit" THEN IntComp(IntOf(piece))
                                            ELSE StrComp(piece)>>
             \o Components(t, j + 1)

\* EasyVersion(vstring), an instance as the attributes it has.
\* LooseVersion.__init__ parses only "if vstring:", so the instance made from
\* the empty text has neither vstring nor version.
EasyVersion(t) ==
    IF t = <<>> THEN [class |-> "EasyVersion"]
    ELSE [class |-> "EasyVersion", vstring |-> t, version |-> Components(t, 1)]

AttributeError ==
    [status |-> "raised", exc |-> "AttributeError", errors |-> <<>>, ret |-> <<>>]

\* EasyVersion.__len__
EasyVersionLen(v) ==
    IF "version" \notin DOMAIN v THEN AttributeError
    ELSE [status |-> "returned", exc |-> "", errors |-> <<>>, ret |-> <<Len(v.version)>>]

\* cmp of two str: lexicographic on the character codes
RECURSIVE CmpStr(_, _)
CmpStr(a, b) ==
    IF a = <<>> /\ b = <<>> THEN 0
    ELSE IF a = <<>> THEN -1
    ELSE IF b = <<>> THEN 1
    ELSE IF Ord(a[1]) < Ord(b[1]) THEN -1
    ELSE IF Ord(a[1]) > Ord(b[1]) THEN 1
    ELSE CmpStr(Tail(a), Tail(b))

\* cmp of two components: an int is less than any str
CmpComp(x, y) ==
    IF x.isnum /\ y.isnum
    THEN (IF x.n < y.n THEN -1 ELSE IF x.n > y.n THEN 1 ELSE 0)
    ELSE IF x.isnum THEN -1
    ELSE IF y.isnum THEN 1
    ELSE CmpStr(x.s, y.s)

\* cmp of two lists of components, as LooseVersion.__cmp__ calls it on
\* self.version and other.version
RECURSIVE CmpVersion(_, _)
CmpVersion(a, b) ==
    IF a = <<>> /\ b = <<>> THEN 0
    ELSE IF a = <<>> THEN -1
    ELSE IF b = <<>> THEN 1
    ELSE LET c == CmpComp(a[1], b[1])
         IN  IF c # 0 THEN c ELSE CmpVersion(Tail(a), Tail(b))

----------------------------------------------------------------------------
(* VersionOperator *)

SEPARATOR == "_"

\* the keys of VersionOperator.OPERATOR
OPERATOR == {"==", ">", ">=", "<", "<=", "!="}

\* the characters of an operator symbol
OpText(o) ==
    CASE o = "==" -> <<"=", "=">>
      [] o = ">"  -> <<">">>
      [] o = ">=" -> <<">", "=">>
      [] o = "<"  -> <<"<">>
      [] o = "<=" -> <<"<", "=">>
      [] o = "!=" -> <<"!", "=">>

\* OPERATOR[o](a, b) on two EasyVersion instances that have a version (the
\* read of .version of one that has none raises AttributeError)
Relation(o, a, b) ==
    LET c == CmpVersion(a.version, b.version)
    IN  CASE o = "==" -> c = 0
          [] o = ">"  -> c > 0
          [] o = ">=" -> c >= 0
          [] o = "<"  -> c < 0
          [] o = "<=" -> c <= 0
          [] o = "!=" -> c # 0

\* (?P<ver_str>[^_\W](?:\S*[^_\W])?)
IsVerStr(s) ==
    /\ Len(s) >= 1
    /\ IsAlnum(s[1])
    /\ IsAlnum(s[Len(s)])
    /\ \A i \in 1..Len(s) : ~IsSpace(s[i])

\* the pattern with a ver_str that may hold no separator
VersionPatternNoSep(s) ==
    {g \in {[ver_str |-> s, operator |-> "None"]} \cup
           {[ver_str |-> SubSeq(s, 1, Len(s) - Len(OpText(o)) - 1), operator |-> o] :
               o \in {p \in OPERATOR :
                        /\ Len(s) >= Len(OpText(p)) + 2
                        /\ SubSeq(s, Len(s) - Len(OpText(p)) + 1, Len(s)) = OpText(p)
                        /\ s[Len(s) - Len(OpText(p))] = SEPARATOR}} :
        /\ IsVerStr(g.ver_str)
        /\ \A i \in 1..Len(g.ver_str) : g.ver_str[i] # SEPARATOR}

\* The groups of every way the pattern without begin/end matches all of s:
\* ver_str, then optionally the separator and an operator.
VersionPattern(s) ==
    {[ver_str |-> s, operator |-> "None"] : x \in {y \in {s} : IsVerStr(y)}}
    \cup
    {[ver_str |-> SubSeq(s, 1, Len(s) - Len(OpText(o)) - 1), operator |-> o] :
        o \in {p \in OPERATOR :
                 /\ Len(s) >= Len(OpText(p)) + 2
                 /\ SubSeq(s, Len(s) - Len(OpText(p)) + 1, Len(s)) = OpText(p)
                 /\ s[Len(s) - Len(OpText(p))] = SEPARATOR
                 /\ IsVerStr(SubSeq(s, 1, Len(s) - Len(OpText(p)) - 1))}}

\* where $ can stand: at the end, and before a newline that ends the text
Anchored(txt) ==
    {txt} \cup (IF Len(txt) >= 1 /\ txt[Len(txt)] = "\n"
                THEN {SubSeq(txt, 1, Len(txt) - 1)} ELSE {})

NoGroups == [ver_str |-> NoneTxt, operator |-> "None"]

\* self.regexp.search(txt) with the pattern of _operator_regexp(begin_end=True):
\* found, and the groupdict.  At most one way of matching exists: ver_str ends
\* with a word character and no operator does.
operator_regexp(txt) ==
    LET ms == UNION {VersionPattern(c) : c \in Anchored(txt)}
    IN  IF ms = {} THEN [found |-> FALSE, groups |-> NoGroups]
        ELSE [found |-> TRUE, groups |-> CHOOSE g \in ms : TRUE]

ZeroVersion == <<"0", ".", "0", ".", "0">>

\* log.error(msg): the message is logged, and the logger class decides whether
\* the call raises (easybuild's logger raises EasyBuildError, the plain
\* fancylogger one returns).
Raised(errors) ==
    [status |-> "raised", exc |-> "EasyBuildError", errors |-> errors, ret |-> <<>>]

Returned(errors, ret) ==
    [status |-> "returned", exc |-> "", errors |-> errors, ret |-> ret]

\* _convert: None becomes '0.0.0'; EasyVersion(str) raises nothing, but the
\* debug message formats the instance, which reads its vstring: for the empty
\* text that raises AttributeError, outside the try.
convert_debug(version) ==
    IF "vstring" \notin DOMAIN version THEN AttributeError
    ELSE Returned(<<>>, <<version>>)

convert(ver_str) ==
    convert_debug(IF ver_str = NoneTxt THEN EasyVersion(ZeroVersion)
                                       ELSE EasyVersion(ver_str))

\* _operator_check(ver_str, operator): the closure check, as the values it
\* closes over.  An operator that is no key of OPERATOR is reported with
\* log.error and, when that returns, leaves op unbound.  operator_check_of is
\* the method after its first line, cv the outcome of _convert(ver_str).
operator_check_of(cv, operator, raise) ==
    IF cv.status = "raised" THEN cv
    ELSE IF operator \in OPERATOR
    THEN Returned(<<>>, <<[version |-> cv.ret[1], op |-> operator]>>)
    ELSE IF raise
         THEN Raised(<<"Failed to match specified operator">>)
         ELSE Returned(<<"Failed to match specified operator">>,
                       <<[version |-> cv.ret[1], op |-> "unbound"]>>)

operator_check(ver_str, operator, raise) ==
    operator_check_of(convert(ver_str), operator, raise)

\* check(test_ver_str) of a closure: the test version is converted first, then
\* op(version, test_ver), the test version the second argument; an unbound op
\* is a NameError.  check_of is the function after its first line.
check_of(check_fn, test_ver) ==
    IF test_ver.status = "raised" THEN test_ver
    ELSE IF check_fn.op = "unbound"
    THEN [status |-> "raised", exc |-> "NameError", errors |-> <<>>, ret |-> <<>>]
    ELSE Returned(<<>>, <<Relation(check_fn.op, check_fn.version, test_ver.ret[1])>>)

check(check_fn, test_ver_str) == check_of(check_fn, convert(test_ver_str))

\* VersionOperator.match(ver_str).  The groupdict's ver_str is overwritten with
\* the whole text before _operator_check and _convert read it.  match_search
\* is the method after the search, match_found its part after a match: cf the
\* outcome of _operator_check, ev that of _convert.
match_found(ver_str, operator, cf, ev) ==
    IF cf.status = "raised" THEN cf
    ELSE IF ev.status = "raised" THEN ev
    ELSE Returned(cf.errors,
                  <<[ver_str |-> ver_str,
                     operator |-> operator,
                     check_fn |-> cf.ret[1],
                     easyversion |-> ev.ret[1]]>>)

match_search(ver_str, res, raise) ==
    IF ~res.found
    THEN IF raise THEN Raised(<<"No version_match">>)
                  ELSE Returned(<<"No version_match">>, <<>>)
    ELSE match_found(ver_str, res.groups.operator,
                     operator_check(ver_str, res.groups.operator, raise),
                     convert(ver_str))

match(ver_str, raise) == match_search(ver_str, operator_regexp(ver_str), raise)

Min(S) == CHOOSE x \in S : \A y \in S : x <= y

\* list.insert(idx, x), idx counted from 0
Insert(vs, idx, x) == SubSeq(vs, 1, idx) \o <<x>> \o SubSeq(vs, idx + 1, Len(vs))

\* the index the loop of add ends with: that of the first stored version the
\* new one is less than, 0 when there is none
insert_idx(vs, easyversion) ==
    LET hits == {i \in 1..Len(vs) : Relation("<", easyversion, vs[i].easyversion)}
    IN  IF hits = {} THEN 0 ELSE Min(hits) - 1

\* add without its else: the entry is inserted although the text did not match
add_noelse(vs, txt, raise) ==
    LET m == match(txt, raise)
    IN  IF m.status = "raised" THEN [versions |-> vs, out |-> m]
        ELSE IF m.ret = <<>>
        THEN [versions |-> Insert(vs, 0, [ver_str |-> txt,
                                          operator |-> "None",
                                          check_fn |-> [version |-> EasyVersion(txt),
                                                        op |-> "unbound"],
                                          easyversion |-> EasyVersion(txt)]),
              out |-> Returned(m.errors \o <<"does not version_match">>, <<>>)]
        ELSE [versions |-> Insert(vs, insert_idx(vs, m.ret[1].easyversion), m.ret[1]),
              out |-> Returned(m.errors, <<>>)]

\* VersionOperator.add(txt) on the list vs: the list after the call and the
\* call's outcome.
add(vs, txt, raise) ==
    LET m == match(txt, raise)
    IN  IF m.status = "raised" THEN [versions |-> vs, out |-> m]
        ELSE IF m.ret = <<>>
        THEN IF raise
             THEN [versions |-> vs,
                   out |-> Raised(m.errors \o <<"does not version_match">>)]
             ELSE [versions |-> vs,
                   out |-> Returned(m.errors \o <<"does not version_match">>, <<>>)]
        ELSE [versions |-> Insert(vs, insert_idx(vs, m.ret[1].easyversion), m.ret[1]),
              out |-> Returned(m.errors, <<>>)]

----------------------------------------------------------------------------
(* ToolchainOperator *)

Goolf == <<"g", "o", "o", "l", "f">>
Intel == <<"i", "n", "t", "e", "l">>

\* [x.NAME for x in all_tcs]: the names search_toolchain('') returned when the
\* ToolchainOperator was constructed
TcNames == {Goolf, Intel}

NoTcGroups ==
    [toolchainname |-> NoneTxt, toolchainversion |-> NoneTxt,
     ver_str |-> NoneTxt, operator |-> "None"]

\* The groups of every way ^(?P<toolchainname>(names))(?:_(?P<toolchainversion>
\* version pattern))?$ matches: a name alone, or a name, the separator and
\* a version expression.
ToolchainPattern(txt) ==
    UNION {
        {[toolchainname |-> n, toolchainversion |-> NoneTxt,
          ver_str |-> NoneTxt, operator |-> "None"] : x \in {y \in {c} : y = n}}
        \cup
        {[toolchainname |-> n,
          toolchainversion |-> SubSeq(c, Len(n) + 2, Len(c)),
          ver_str |-> g.ver_str, operator |-> g.operator] :
            g \in IF /\ Len(c) >= Len(n) + 2
                     /\ SubSeq(c, 1, Len(n)) = n
                     /\ c[Len(n) + 1] = SEPARATOR
                  THEN VersionPattern(SubSeq(c, Len(n) + 2, Len(c)))
                  ELSE {}}
        : c \in Anchored(txt), n \in TcNames}

\* the pattern ToolchainOperator._operator_regexp compiles, searched in txt
toolchain_operator_regexp(txt) ==
    LET ms == ToolchainPattern(txt)
    IN  IF ms = {} THEN [found |-> FALSE, groups |-> NoTcGroups]
        ELSE [found |-> TRUE, groups |-> CHOOSE g \in ms : TRUE]

\* the attributes of a ToolchainOperator instance: those __init__ sets and the
\* methods of the class
ToolchainOperatorAttrs ==
    {"log", "regexp", "SEPARATOR", "_operator_regexp", "toolchain_match"}

KeyError ==
    [status |-> "raised", exc |-> "KeyError", errors |-> <<>>, ret |-> <<>>]

\* ToolchainOperator.toolchain_match(txt).  It reads self.toolchain_regexp;
\* the groupdict has no key 'version'.
toolchain_match(txt, raise) ==
    IF "toolchain_regexp" \notin ToolchainOperatorAttrs THEN AttributeError
    ELSE LET r == toolchain_operator_regexp(txt)
         IN  IF ~r.found
             THEN IF raise THEN Raised(<<"No toolchain_match">>)
                           ELSE Returned(<<"No toolchain_match">>, <<>>)
             ELSE IF r.groups.toolchainversion = NoneTxt
                  THEN Returned(<<>>, <<r.groups>>)
                  ELSE KeyError

----------------------------------------------------------------------------
(* ConfigObjVersion *)

DEFAULT == <<"D", "E", "F", "A", "U", "L", "T">>

\* the attributes of a ConfigObjVersion instance: those __init__ sets and the
\* methods of the class
ConfigObjVersionAttrs == {"log", "configobj", "set_configobj"}

\* self.<attr>(...) for an attribute that is not in ConfigObjVersionAttrs: the
\* lookup raises AttributeError before anything is called
SelfCall(attr) ==
    [status |-> "raised", exc |-> "AttributeError", attr |-> attr, outcome |-> ""]

Done(outcome) ==
    [status |-> "returned", exc |-> "", attr |-> "", outcome |-> outcome]

\* the body of the loop of set_configobj for one item; a section is
\* [name, keys, version, toolchain].  add_version, toolchain_match and
\* add_toolchain are looked up on self.
section(sec) ==
    IF sec.name = DEFAULT
    THEN IF "version" \in sec.keys THEN SelfCall("add_version")
         ELSE IF "toolchain" \in sec.keys THEN SelfCall("toolchain_match")
         ELSE Done("default")
    ELSE SelfCall("add_toolchain")

\* for name, section in configobj.items(): the sections from the i-th on, after
\* the outcomes acc of the ones before
RECURSIVE items(_, _, _)
items(configobj, i, acc) ==
    IF i > Len(configobj)
    THEN [status |-> "returned", exc |-> "", attr |-> "", outcomes |-> acc]
    ELSE LET r == section(configobj[i])
         IN  IF r.status = "raised"
             THEN [status |-> "raised", exc |-> r.exc, attr |-> r.attr, outcomes |-> acc]
             ELSE items(configobj, i + 1, Append(acc, r.outcome))

\* ConfigObjVersion.set_configobj(configobj)
set_configobj(configobj) == items(configobj, 1, <<>>)

----------------------------------------------------------------------------
(* Bounds and inputs *)

\* entries the list of versions may hold
MaxStore == 3

\* length of the texts enumerated over Alphabet
MaxLen == 4

\* sections of a configobj
MaxSections == 2

V10 == <<"1", ".", "0">>
V20 == <<"2", ".", "0">>
V30 == <<"3", ".", "0">>
V10ge == <<"1", ".", "0", "_", ">", "=">>
V20ge == <<"2", ".", "0", "_", ">", "=">>
V010ge == <<"0", "1", ".", "0", "_", ">", "=">>
V10sep == <<"1", ".", "0", "_">>
NotAVersion == <<"n", "o", "t", "_", "a", "_", "v", "e", "r", "s", "i", "o", "n", "_", "!", "!">>
UnknownGe10 == <<"u", "n", "k", "n", "o", "w", "n", "_", ">", "=", "1", ".", "0">>
Goolf2016aGe == <<"g", "o", "o", "l", "f", "_", "2", "0", "1", "6", "a", "_", ">", "=">>
UnknownGe10Nl == UnknownGe10 \o <<"\n">>
UnknownGe10Ge == UnknownGe10 \o <<"_", ">", "=">>
UnknownGe10Sep == UnknownGe10 \o <<"_">>

\* the texts given to add and match on a list of versions
AddTexts == {V10, V20, V30, V10ge, V20ge, V010ge, V10sep, NotAVersion}

Alphabet == {"1", "2", "a", ".", "_", ">", "=", " "}

ShortTexts == UNION {[1..n -> Alphabet] : n \in 1..MaxLen}

SampleTexts ==
    {<<"1", ".", "2", ".", "3">>,
     <<"5", ".", "0">>,
     <<"5", ".", "0", "_", "=", "=">>,
     <<"5", ".", "0", "_", ">">>,
     <<"5", ".", "0", "_", ">", "=">>,
     <<"5", ".", "0", "_", "<">>,
     <<"5", ".", "0", "_", "<", "=">>,
     <<"5", ".", "0", "_", "!", "=">>,
     <<"1", ".", "0", "\n">>,
     Goolf, Intel, Goolf2016aGe,
     <<"g", "o", "o", "l", "f", "_", "1", ".", "0">>,
     <<"g", "o", "o", "l", "f", "_", ">", "=", "2", "0", "1", "6", "a">>,
     UnknownGe10, UnknownGe10Nl, UnknownGe10Ge, UnknownGe10Sep, NotAVersion}

AllTexts == ShortTexts \cup SampleTexts

\* the version strings a check is called with
Candidates ==
    {NoneTxt, <<>>,
     <<"1">>,
     <<"5", ".", "0">>,
     <<"4", ".", "9">>,
     <<"5", ".", "0", ".", "1">>,
     <<"2", "0", "1", "6", "a">>}

DefaultSections ==
    {[name |-> DEFAULT, keys |-> k,
      version |-> IF "version" \in k THEN v ELSE NoneTxt,
      toolchain |-> IF "toolchain" \in k THEN t ELSE NoneTxt] :
        k \in SUBSET {"version", "toolchain"},
        v \in {V10ge, NotAVersion},
        t \in {Goolf, UnknownGe10}}

OtherSections ==
    {[name |-> n, keys |-> {}, version |-> NoneTxt, toolchain |-> NoneTxt] :
        n \in {Goolf2016aGe, V10ge, UnknownGe10, NotAVersion}}

\* the configobjs: up to MaxSections sections with distinct names
Configs ==
    UNION {{c \in [1..n -> DefaultSections \cup OtherSections] :
              \A i, j \in 1..n : i # j => c[i].name # c[j].name} :
           n \in 0..MaxSections}

----------------------------------------------------------------------------
(* A VersionOperator and its list of versions *)

Init ==
    /\ raiseError \in BOOLEAN
    /\ versions = <<>>
    /\ result = [op |-> "init"]

Add(txt) ==
    LET r == add(versions, txt, raiseError)
    IN  /\ Len(r.versions) <= MaxStore
        /\ versions' = r.versions
        /\ result' = [op |-> "add", txt |-> txt, out |-> r.out]
        /\ UNCHANGED raiseError

Match(txt) ==
    /\ result' = [op |-> "match", txt |-> txt, out |-> match(txt, raiseError)]
    /\ UNCHANGED <<raiseError, versions>>

Next == \E txt \in AddTexts : Add(txt) \/ Match(txt)

Spec == Init /\ [][Next]_vars

----------------------------------------------------------------------------
(* match, check and toolchain_match applied to a text *)

InitGrammar ==
    /\ raiseError \in BOOLEAN
    /\ versions = <<>>
    /\ result \in {[op |-> "input", txt |-> t] : t \in AllTexts}

ApplyMatch ==
    /\ result.op = "input"
    /\ result' = [op |-> "match", txt |-> result.txt,
                  out |-> match(result.txt, raiseError)]
    /\ UNCHANGED <<raiseError, versions>>

\* the check_fn of a match result called with a candidate
ApplyCheck(c) ==
    /\ result.op = "match"
    /\ result.out.ret # <<>>
    /\ result' = [op |-> "check", txt |-> result.txt, cand |-> c,
                  out |-> check(result.out.ret[1].check_fn, c)]
    /\ UNCHANGED <<raiseError, versions>>

ApplyToolchainMatch ==
    /\ result.op = "input"
    /\ result' = [op |-> "toolchain_match", txt |-> result.txt,
                  out |-> toolchain_match(result.txt, raiseError)]
    /\ UNCHANGED <<raiseError, versions>>

\* set_configobj of a configobj whose one section has the text as its name
ApplySetConfigobj ==
    /\ result.op = "input"
    /\ result' = [op |-> "section", txt |-> result.txt,
                  out |-> set_configobj(<<[name |-> result.txt, keys |-> {},
                                           version |-> NoneTxt,
                                           toolchain |-> NoneTxt]>>)]
    /\ UNCHANGED <<raiseError, versions>>

NextGrammar ==
    \/ ApplyMatch
    \/ \E c \in Candidates : ApplyCheck(c)
    \/ ApplyToolchainMatch
    \/ ApplySetConfigobj

SpecGrammar == InitGrammar /\ [][NextGrammar]_vars

----------------------------------------------------------------------------
(* A ConfigObjVersion given a configobj *)

SetConfigobj(configobj) ==
    /\ result' = [op |-> "set_configobj", configobj |-> configobj,
                  out |-> set_configobj(configobj)]
    /\ UNCHANGED <<raiseError, versions>>

NextConfig == \E configobj \in Configs : SetConfigobj(configobj)

SpecConfig == Init /\ [][NextConfig]_vars

----------------------------------------------------------------------------
(* Calls of match on one text, with adds between them *)

\* calls of match that are recorded
MaxCalls == 2

\* the texts added between the calls: expressions, a name, a text that does
\* not match
BetweenTexts == {V10ge, V20ge, V10, NotAVersion}

\* result holds the text and, for each call of match on it so far, what the
\* call returned and the length of the list of versions it was made at
InitMatch ==
    /\ raiseError \in BOOLEAN
    /\ versions = <<>>
    /\ result \in {[op |-> "calls", txt |-> t, outs |-> <<>>] : t \in AddTexts}

AddBetween(txt) ==
    LET r == add(versions, txt, raiseError)
    IN  /\ Len(r.versions) <= MaxStore
        /\ versions' = r.versions
        /\ UNCHANGED <<raiseError, result>>

\* match that also registers what it matched
MatchAgainRegisters ==
    /\ Len(result.outs) < MaxCalls
    /\ Len(add(versions, result.txt, raiseError).versions) <= MaxStore
    /\ versions' = add(versions, result.txt, raiseError).versions
    /\ result' = [result EXCEPT !.outs =
                      Append(@, [out |-> match(result.txt, raiseError),
                                 at |-> Len(versions)])]
    /\ UNCHANGED raiseError

MatchAgain ==
    /\ Len(result.outs) < MaxCalls
    /\ result' = [result EXCEPT !.outs =
                      Append(@, [out |-> match(result.txt, raiseError),
                                 at |-> Len(versions)])]
    /\ UNCHANGED <<raiseError, versions>>

NextMatch == MatchAgain \/ \E txt \in BetweenTexts : AddBetween(txt)

SpecMatch == InitMatch /\ [][NextMatch]_vars

----------------------------------------------------------------------------
(* Properties *)

\* the entry add builds for the text of the last call
NewEntry == match(result.txt, raiseError).ret[1]

\* C1: after any sequence of adds the list of versions is in descending
\* order: versions[i].easyversion >= versions[i+1].easyversion for every
\* adjacent pair.
C1_Descending ==
    \A i \in 1..(Len(versions) - 1) :
        Relation(">=", versions[i].easyversion, versions[i + 1].easyversion)

\* the groups the anchored version pattern finds in the text of the last call
Groups == operator_regexp(result.txt).groups

\* C2: for a text that conforms to the version grammar and has no operator
\* suffix, match returns a result whose operator is "==" and whose check is
\* the equality check.
C2_DefaultOperator ==
    (/\ result.op = "match"
     /\ operator_regexp(result.txt).found
     /\ Groups.operator = "None")
    => /\ result.out.status = "returned"
       /\ result.out.ret # <<>>
       /\ result.out.ret[1].operator = "=="
       /\ result.out.ret[1].check_fn.op = "=="

\* C3: for a text NAME_OP the check of the match result, called with a
\* candidate c that is not empty, returns OP(V, Vc) with V the version of NAME alone and Vc the
\* version of c.
C3_CheckOfName ==
    (/\ result.op = "check"
     /\ result.cand # <<>>
     /\ Groups.operator \in OPERATOR)
    => /\ result.out.status = "returned"
       /\ result.out.ret[1] =
              Relation(Groups.operator, EasyVersion(Groups.ver_str),
                       convert(result.cand).ret[1])

\* the groups the toolchain pattern finds in the text of the last call
TcGroups == toolchain_operator_regexp(result.txt).groups

\* C4: for a text T or T_VEREXPR, T a known toolchain name, toolchain_match
\* returns a match whose toolchain name is T, with the operator and a check
\* when the version part is there and without a check when it is not.
C4_ToolchainMatch ==
    (/\ result.op = "toolchain_match"
     /\ toolchain_operator_regexp(result.txt).found)
    => /\ result.out.status = "returned"
       /\ result.out.ret # <<>>
       /\ result.out.ret[1].toolchainname = TcGroups.toolchainname
       /\ IF TcGroups.toolchainversion = NoneTxt
          THEN "check_fn" \notin DOMAIN result.out.ret[1]
          ELSE /\ result.out.ret[1].operator = TcGroups.operator
               /\ "check_fn" \in DOMAIN result.out.ret[1]

\* a DEFAULT section whose version does not conform to the version grammar or
\* whose toolchain does not match the toolchain grammar
BadDefault(sec) ==
    /\ sec.name = DEFAULT
    /\ \/ "version" \in sec.keys /\ ~operator_regexp(sec.version).found
       \/ "toolchain" \in sec.keys /\ ~toolchain_operator_regexp(sec.toolchain).found

\* C5: when set_configobj processes a DEFAULT section that is bad, the pass
\* ends there in the error the code reports for a bad default, the one of
\* self.log.error (an EasyBuildError): it does not return normally and it does
\* not end in any other exception.
C5_DefaultSectionError ==
    result.op = "set_configobj" =>
        \A i \in 1..Len(result.configobj) :
            (/\ BadDefault(result.configobj[i])
             /\ Len(result.out.outcomes) >= i - 1)
            => /\ result.out.status = "raised"
               /\ result.out.exc = "EasyBuildError"
               /\ Len(result.out.outcomes) = i - 1

\* C6: set_configobj returns normally with every section other than DEFAULT in
\* exactly one of the outcomes toolchain, version, unclassified.
C6_EverySectionClassified ==
    result.op = "set_configobj" =>
        /\ result.out.status = "returned"
        /\ Len(result.out.outcomes) = Len(result.configobj)
        /\ \A i \in 1..Len(result.configobj) :
               result.configobj[i].name # DEFAULT =>
                   result.out.outcomes[i] \in {"toolchain", "version", "unclassified"}

\* the text before the first separator
LeadingToken(t) ==
    LET seps == {i \in 1..Len(t) : t[i] = SEPARATOR}
    IN  IF seps = {} THEN t ELSE SubSeq(t, 1, Min(seps) - 1)

\* the leading token is no toolchain name, and a separator and an operator
\* are followed by further characters
UnknownWithOperatorInside(t) ==
    /\ LeadingToken(t) \notin TcNames
    /\ \E i \in 1..Len(t), o \in OPERATOR :
          /\ t[i] = SEPARATOR
          /\ i + Len(OpText(o)) < Len(t)
          /\ SubSeq(t, i + 1, i + Len(OpText(o))) = OpText(o)

\* the text is not empty, starts and ends with a letter or a digit and holds
\* no white space
WordEnded(t) ==
    /\ Len(t) >= 1
    /\ IsAlnum(t[1])
    /\ IsAlnum(t[Len(t)])
    /\ \A i \in 1..Len(t) : t[i] \notin {" ", "\n"}

\* the text, and the text less one newline at its end
LessNewline(t) ==
    {t} \cup {SubSeq(t, 1, Len(t) - 1) : x \in {y \in {t} : Len(y) >= 1 /\ y[Len(y)] = "\n"}}

\* the text, and the text less a separator and an operator at its end
LessOperator(t) ==
    {t} \cup {SubSeq(t, 1, Len(t) - Len(OpText(o)) - 1) :
                o \in {p \in OPERATOR :
                         /\ Len(t) >= Len(OpText(p)) + 1
                         /\ SubSeq(t, Len(t) - Len(OpText(p)), Len(t))
                                = <<SEPARATOR>> \o OpText(p)}}

\* a version expression: the text, less a newline at its end and less a
\* separator and an operator at its end, is WordEnded
VersionExpression(t) ==
    \E c \in LessNewline(t) : \E n \in LessOperator(c) : WordEnded(n)

Structure(out) ==
    [status |-> out.status, exc |-> out.exc, errors |-> out.errors,
     ret |-> IF out.ret = <<>> THEN <<>>
             ELSE <<[ver_str |-> out.ret[1].ver_str,
                     operator |-> out.ret[1].operator,
                     version |-> out.ret[1].easyversion.version]>>]

C9_FailedAddKeepsList ==
    [][(/\ result'.op = "add"
        /\ ~operator_regexp(result'.txt).found)
       => /\ versions' = versions
          /\ result'.out.errors # <<>>
          /\ raiseError => result'.out.status = "raised"]_vars

C9_Witness ==
    /\ result.op = "add"
    /\ ~operator_regexp(result.txt).found
    /\ Len(versions) >= 2

\* the index C10 names: that of the first stored version strictly less than
\* the new one, the end when there is none
FirstLessIdx(vs, easyversion) ==
    LET lows == {i \in 1..Len(vs) : Relation("<", vs[i].easyversion, easyversion)}
    IN  IF lows = {} THEN Len(vs) ELSE Min(lows) - 1

\* C10: a successful add inserts the new entry at the first index whose stored
\* version is strictly less than the new version, at the end when there is
\* none.
C10_InsertBeforeFirstLess ==
    [][(/\ result'.op = "add"
        /\ Len(versions') = Len(versions) + 1)
       => versions' =
              Insert(versions,
                     FirstLessIdx(versions, NewEntry'.easyversion),
                     NewEntry')]_vars

====
